---- MODULE Spec2Model ----
(***************************************************************************)
(* CoordinatesSorter (src/main.py): the DMS parser, the greedy             *)
(* nearest-neighbour route builder and the ordered-coordinates file.       *)
(*                                                                         *)
(* Python lists are TLA+ sequences; Python indices are 0-based, so         *)
(* At(list, i) reads list[i].  Text is a sequence of one-character         *)
(* strings; characters that are not ASCII carry their Unicode name         *)
(* ("deg" is U+00B0, "lsq" is U+2018, "ldq" is U+201C, "apos" is U+0027,   *)
(* "quot" is U+0022).  A line of a file is the list of its                 *)
(* whitespace-separated tokens, which is what line.strip().split()         *)
(* yields.  Decimal degrees are exact rationals with denominator 3600,     *)
(* held as their numerator (arc-seconds); floating-point rounding is not   *)
(* modelled.                                                               *)
(***************************************************************************)
EXTENDS Integers, Sequences, FiniteSets, TLC

VARIABLES
    pc,                 \* position of the running method
    error,              \* the exception that ended it, or NoError
    coordinates,        \* list of (lat, lon, description)
    start,              \* coordinates_start_point
    remaining_coords,   \* nearest_neighbor: set of unvisited indices
    current_coord,      \* nearest_neighbor: current position
    route,              \* nearest_neighbor: the route built so far
    queries,            \* distance_matrix calls of the latest while pass, in order
    answered,           \* every distance_matrix call made so far, with its answer
    num_queries,        \* number of distance_matrix calls made so far
    lines,              \* the text file: a list of lines
    line_number,        \* number of lines consumed so far
    reported,           \* line numbers whose error was printed
    dms_str,            \* dms_to_decimal: the argument
    dms_result,         \* dms_to_decimal: the value returned, or the exception
    efficient_route,    \* save_coordinates_to_file: the route written
    reread              \* create_map_from_file: the list parsed back

vars == <<pc, error, coordinates, start, remaining_coords, current_coord, route,
          queries, answered, num_queries, lines, line_number, reported,
          dms_str, dms_result, efficient_route, reread>>

routeVars == <<start, remaining_coords, current_coord, route, queries, answered,
               num_queries>>
readVars == <<lines, line_number, reported>>
dmsVars == <<dms_str, dms_result>>
fileVars == <<efficient_route, reread>>

-----------------------------------------------------------------------------
(* Bounds of the model *)

MaxCoords == 3
MaxDist == 3
MaxLines == 3
MaxField == 2

-----------------------------------------------------------------------------
(* Python values *)

\* None where an index is expected (nearest_coord = None); no index is negative
None == -99
\* None where a description is expected
NoneDescription == [none |-> TRUE]
\* a description: the words that ' '.join puts one space between
Description(words) == [words |-> words]
\* float('inf'): above every distance the provider reports in the model
Inf == MaxDist + 1

NoError == [type |-> "none", line |-> 0]
Raise(type, line) == [type |-> type, line |-> line]

At(list, i) == list[i + 1]
Indices(list) == 0 .. (Len(list) - 1)
Range(seq) == {seq[k] : k \in 1 .. Len(seq)}
Orders(S) == {o \in [1 .. Cardinality(S) -> S] : \A a, b \in 1 .. Cardinality(S) : o[a] = o[b] => a = b}

-----------------------------------------------------------------------------
(* The distance provider: gmaps.distance_matrix *)

OK(value) == [status |-> "OK", value |-> value]
Failed == [status |-> "ZERO_RESULTS"]
Responses == {OK(v) : v \in 0 .. MaxDist} \cup {Failed}

-----------------------------------------------------------------------------
(* nearest_neighbor *)

CloserOrEqual(dist, nearest_distance) == dist <= nearest_distance
\* line 75
Closer(dist, nearest_distance) == dist < nearest_distance

\* line 73
StatusOK(result) == result.status = "OK"

\* lines 68-77: the for loop over remaining_coords, visited in `order`
RECURSIVE ForLoop(_, _, _, _)
ForLoop(order, result, nearest_distance, nearest_coord) ==
    IF order = <<>>
    THEN [nearest_distance |-> nearest_distance, nearest_coord |-> nearest_coord]
    ELSE LET coord == Head(order)
         IN  IF StatusOK(result[coord])
                THEN IF Closer(result[coord].value, nearest_distance)
                     THEN ForLoop(Tail(order), result, result[coord].value, coord)
                     ELSE ForLoop(Tail(order), result, nearest_distance, nearest_coord)
                ELSE ForLoop(Tail(order), result, nearest_distance, nearest_coord)

KeepStart(num_coords, s) == 0 .. (num_coords - 1)
\* lines 59-60: set(range(num_coords)) without start
RemainingAfterStart(num_coords, s) == (0 .. (num_coords - 1)) \ {s}

StartAlwaysPresent(num_coords, s) == TRUE
\* line 60: set.remove raises KeyError unless the element is in the set
StartPresent(num_coords, s) == s \in 0 .. (num_coords - 1)

KeepVisited(remaining, nearest_coord) == remaining
\* line 81
RemainingAfterVisit(remaining, nearest_coord) == remaining \ {nearest_coord}

\* lines 58-62
Start ==
    /\ pc = "nearest_neighbor"
    /\ IF StartPresent(Len(coordinates), start)
       THEN /\ remaining_coords' = RemainingAfterStart(Len(coordinates), start)
            /\ current_coord' = start
            /\ route' = <<start>>
            /\ pc' = "while"
            /\ error' = error
       ELSE /\ pc' = "raised"
            /\ error' = Raise("KeyError", 60)
            /\ UNCHANGED <<remaining_coords, current_coord, route>>
    /\ UNCHANGED <<coordinates, start, queries, answered, num_queries>>
    /\ UNCHANGED <<readVars, dmsVars, fileVars>>

\* lines 64-81: one pass of the while loop
Step ==
    /\ pc = "while"
    /\ remaining_coords # {}
    /\ \E order \in Orders(remaining_coords) :
       \E result \in [remaining_coords -> Responses] :
          LET nearest == ForLoop(order, result, Inf, None)
              asked == [k \in 1 .. Len(order) |->
                          [origin |-> current_coord, destination |-> order[k],
                           result |-> result[order[k]]]]
          IN  /\ queries' = asked
              /\ answered' = answered \cup Range(asked)
              /\ num_queries' = num_queries + Len(order)
              /\ route' = Append(route, nearest.nearest_coord)
              /\ current_coord' = nearest.nearest_coord
              /\ IF nearest.nearest_coord \in remaining_coords
                 THEN /\ remaining_coords' =
                            RemainingAfterVisit(remaining_coords, nearest.nearest_coord)
                      /\ pc' = pc
                      /\ error' = error
                 ELSE /\ remaining_coords' = remaining_coords
                      /\ pc' = "raised"
                      /\ error' = Raise("KeyError", 81)
    /\ UNCHANGED <<coordinates, start>>
    /\ UNCHANGED <<readVars, dmsVars, fileVars>>

\* line 83
Return ==
    /\ pc = "while"
    /\ remaining_coords = {}
    /\ pc' = "returned"
    /\ UNCHANGED <<error, coordinates, routeVars, readVars, dmsVars, fileVars>>

\* lines 110-112: map_center of plot_map, reached from calculate_route line 139
PlotMap ==
    /\ pc = "returned"
    /\ IF Len(coordinates) = 0
       THEN pc' = "raised" /\ error' = Raise("ZeroDivisionError", 111)
       ELSE pc' = "plotted" /\ error' = error
    /\ UNCHANGED <<coordinates, routeVars, readVars, dmsVars, fileVars>>

\* checkpoints on a line: (0,0), (1,0), (3,0), (6,0), ...
SamplePoint(i) == <<(i * (i + 1)) \div 2, 0, NoneDescription>>

Init ==
    /\ pc = "nearest_neighbor"
    /\ error = NoError
    /\ \E n \in 0 .. MaxCoords : coordinates = [i \in 1 .. n |-> SamplePoint(i - 1)]
    /\ start \in -1 .. MaxCoords
    /\ remaining_coords = {}
    /\ current_coord = None
    /\ route = <<>>
    /\ queries = <<>>
    /\ answered = {}
    /\ num_queries = 0
    /\ lines = <<>>
    /\ line_number = 0
    /\ reported = <<>>
    /\ dms_str = <<>>
    /\ dms_result = NoError
    /\ efficient_route = <<>>
    /\ reread = <<>>

Next == Start \/ Step \/ Return \/ PlotMap

Spec == Init /\ [][Next]_vars

-----------------------------------------------------------------------------
(* Properties of nearest_neighbor *)

num_coords == Len(coordinates)
Entered == pc # "nearest_neighbor"
Finished == pc \in {"returned", "plotted"}
ValidStart == num_coords >= 1 /\ start \in Indices(coordinates)
NoRepeat(seq) == \A a, b \in 1 .. Len(seq) : seq[a] = seq[b] => a = b
Last(seq) == seq[Len(seq)]
Succeeded(q) == q.result.status = "OK"
\* the provider answered OK to every query made so far
EveryQueryOK == \A q \in answered : Succeeded(q)
\* in every while pass so far at least one query was answered OK
EveryPassHasOK == \A q \in answered : \E r \in answered : r.origin = q.origin /\ Succeeded(r)
\* the latest while pass got no OK answer at all
LastPassAllFailed == queries # <<>> /\ \A k \in 1 .. Len(queries) : ~Succeeded(queries[k])
LastPassHasOK == \E k \in 1 .. Len(queries) : Succeeded(queries[k])
\* the least distance answered OK in the latest pass, and the first query that got it
LastPassMin ==
    CHOOSE m \in 0 .. MaxDist :
        /\ \E k \in 1 .. Len(queries) : queries[k].result = OK(m)
        /\ \A k \in 1 .. Len(queries) : Succeeded(queries[k]) => queries[k].result.value >= m
FirstAtMin ==
    CHOOSE k \in 1 .. Len(queries) :
        /\ queries[k].result = OK(LastPassMin)
        /\ \A j \in 1 .. (k - 1) : queries[j].result # OK(LastPassMin)
Abs(x) == IF x < 0 THEN -x ELSE x
\* the provider is the Euclidean distance between the checkpoints
EuclideanProvider ==
    \A q \in answered :
        q.result = OK(Abs(At(coordinates, q.origin)[1] - At(coordinates, q.destination)[1]))

\* C1: with n >= 1 checkpoints, a start index in 0..n-1 and a provider that
\* answers OK to every query, nearest_neighbor does not raise, its route starts
\* at the start index and never repeats an index, and the route it returns has
\* length n and is a permutation of 0..n-1.
C1_RouteIsPermutation ==
    (Entered /\ ValidStart /\ EveryQueryOK) =>
        /\ pc # "raised"
        /\ route[1] = start
        /\ NoRepeat(route)
        /\ Range(route) \subseteq Indices(coordinates)
        /\ Finished => (Len(route) = num_coords /\ Range(route) = Indices(coordinates))

C1_Witness ==
    /\ pc = "returned" /\ num_coords = 3 /\ start = 1 /\ EveryQueryOK
    /\ Len(route) = 3 /\ num_queries = 3

\* C2: when every query of a while pass fails, the operation ends in an
\* explicit routing error raised where the failure is found: the exception is
\* a routing error and no None has been put into the route or made the
\* current position.
C2_AllFailedIsExplicitError ==
    LastPassAllFailed =>
        /\ pc = "raised"
        /\ error.type = "RoutingError"
        /\ None \notin Range(route)
        /\ current_coord # None

\* what the code does in the case of C2: None is appended to the route and
\* made the current position, and set.remove(None) raises KeyError at line 81
AllFailedEndsInKeyError ==
    LastPassAllFailed =>
        /\ pc = "raised" /\ error = Raise("KeyError", 81)
        /\ Last(route) = None /\ current_coord = None

\* C3: with zero checkpoints (and the default start point 0) routing is a
\* no-op: nearest_neighbor raises nothing, the route is empty, no query is
\* made and no aggregate divides by zero.
C3_EmptyInputIsNoOp ==
    (Entered /\ num_coords = 0 /\ start = 0) =>
        /\ pc # "raised"
        /\ route = <<>>
        /\ num_queries = 0

\* C4: a start index outside 0..n-1 ends nearest_neighbor in an error before
\* any query and without a route; a start index inside 0..n-1 is accepted.
C4_StartMustBeInRange ==
    Entered =>
        IF start \in Indices(coordinates)
        THEN error # Raise("KeyError", 60) /\ route # <<>> /\ route[1] = start
        ELSE /\ pc = "raised" /\ error = Raise("KeyError", 60)
             /\ num_queries = 0 /\ answered = {} /\ route = <<>>

C4_Witness ==
    /\ pc = "raised" /\ num_coords = 2 /\ start = 2 /\ error = Raise("KeyError", 60)

\* C8: after every while pass the element appended to the route is an index
\* that was unvisited, whose query succeeded and whose distance is the least
\* among the queries of the pass that succeeded; the candidates whose query
\* failed are still unvisited; and with the Euclidean provider over
\* (0,0),(1,0),(3,0) and start 0 the route returned is [0,1,2].
C8_GreedySelection ==
    /\ queries # <<>> =>
          /\ \E k \in 1 .. Len(queries) :
                /\ queries[k].destination = Last(route)
                /\ Succeeded(queries[k])
                /\ queries[k].result.value = LastPassMin
          /\ \A k \in 1 .. Len(queries) :
                ~Succeeded(queries[k]) => queries[k].destination \in remaining_coords
    /\ (Finished /\ num_coords = 3 /\ start = 0 /\ EuclideanProvider) => route = <<0, 1, 2>>

\* the selection of C8 in the passes where at least one query succeeded
GreedySelectionWhenAnswered ==
    /\ LastPassHasOK =>
          /\ \E k \in 1 .. Len(queries) :
                /\ queries[k].destination = Last(route)
                /\ Succeeded(queries[k])
                /\ queries[k].result.value = LastPassMin
          /\ \A k \in 1 .. Len(queries) :
                ~Succeeded(queries[k]) => queries[k].destination \in remaining_coords
    /\ (Finished /\ num_coords = 3 /\ start = 0 /\ EuclideanProvider) => route = <<0, 1, 2>>

\* C9: when several candidates of a pass report the least distance, the one
\* chosen is the one queried first in that pass.
C9_TieGoesToFirstSeen ==
    LastPassHasOK => Last(route) = queries[FirstAtMin].destination

C9_Witness ==
    /\ pc = "while" /\ Len(queries) = 2
    /\ queries[1].result = OK(1) /\ queries[2].result = OK(1)
    /\ queries[1].destination > queries[2].destination
    /\ Last(route) = queries[1].destination

StepsDone == Len(route) - 1
\* C10: with a valid start and at least one query answered OK in every pass,
\* nearest_neighbor does not raise; after k passes n-1-k indices are unvisited
\* and k*n - k*(k+1)/2 queries have been made; every query of a pass has the
\* position the pass started from as origin and the indices unvisited at that
\* time, each once, as destinations; the loop can be left exactly when no
\* index is unvisited, which is after n-1 passes and n*(n-1)/2 queries.
C10_StepsAndQueries ==
    (Entered /\ ValidStart /\ EveryPassHasOK) =>
        /\ pc # "raised"
        /\ Cardinality(remaining_coords) = num_coords - 1 - StepsDone
        /\ 2 * num_queries = 2 * StepsDone * num_coords - StepsDone * (StepsDone + 1)
        /\ queries # <<>> =>
              /\ \A k \in 1 .. Len(queries) : queries[k].origin = route[Len(route) - 1]
              /\ {queries[k].destination : k \in 1 .. Len(queries)}
                    = remaining_coords \cup {Last(route)}
              /\ Len(queries) = Cardinality(remaining_coords) + 1
        /\ pc = "while" => ((ENABLED Return) <=> remaining_coords = {})
        /\ pc = "while" => ((ENABLED Step) <=> remaining_coords # {})
        /\ Finished =>
              /\ remaining_coords = {}
              /\ StepsDone = num_coords - 1
              /\ 2 * num_queries = num_coords * (num_coords - 1)

C10_Witness ==
    /\ pc = "returned" /\ num_coords = 3 /\ num_queries = 3 /\ StepsDone = 2
    /\ ~EveryQueryOK /\ EveryPassHasOK

-----------------------------------------------------------------------------
(* Text *)

Digits == {"0", "1", "2", "3", "4", "5", "6", "7", "8", "9"}
DigitValue(c) ==
    CASE c = "0" -> 0 [] c = "1" -> 1 [] c = "2" -> 2 [] c = "3" -> 3 [] c = "4" -> 4
      [] c = "5" -> 5 [] c = "6" -> 6 [] c = "7" -> 7 [] c = "8" -> 8 [] c = "9" -> 9
DigitChar(d) == <<"0", "1", "2", "3", "4", "5", "6", "7", "8", "9">>[d + 1]

\* str(n) for an integer n >= 0
RECURSIVE NatStr(_)
NatStr(n) == IF n < 10 THEN <<DigitChar(n)>> ELSE Append(NatStr(n \div 10), DigitChar(n % 10))

\* int(text) for a non-empty run of digits
RECURSIVE int(_)
int(text) ==
    IF Len(text) = 1 THEN DigitValue(text[1])
    ELSE 10 * int(SubSeq(text, 1, Len(text) - 1)) + DigitValue(text[Len(text)])

\* the index after the longest run of digits of text that starts at i (\d+ is greedy)
RECURSIVE DigitsEnd(_, _)
DigitsEnd(text, i) ==
    IF i <= Len(text) /\ text[i] \in Digits THEN DigitsEnd(text, i + 1) ELSE i

HasChar(text, i, chars) == i <= Len(text) /\ text[i] \in chars

-----------------------------------------------------------------------------
(* dms_to_decimal *)

\* line 33: the character after the minutes is U+2018
MinuteMark == {"lsq"}
\* line 33: the character after the seconds is U+201C
SecondMark == {"ldq"}
\* line 33: ([NSEW])
Directions == {"N", "S", "E", "W"}

NoMatch == [matched |-> FALSE]
\* lines 33-34: dms_pattern.match(dms_str), which anchors the pattern at the
\* start of the string only
Match(text) ==
    LET a == DigitsEnd(text, 1)
        b == DigitsEnd(text, a + 1)
        c == DigitsEnd(text, b + 1)
    IN  IF /\ a > 1 /\ HasChar(text, a, {"deg"})
           /\ b > a + 1 /\ HasChar(text, b, MinuteMark)
           /\ c > b + 1 /\ HasChar(text, c, SecondMark)
           /\ HasChar(text, c + 1, Directions)
        THEN [matched |-> TRUE,
              groups |-> <<SubSeq(text, 1, a - 1), SubSeq(text, a + 1, b - 1),
                           SubSeq(text, b + 1, c - 1), text[c + 1]>>]
        ELSE NoMatch

NegateOnlySouth(direction) == direction \in {"S"}
\* line 41
Negated(direction) == direction \in {"S", "W"}

\* line 40, in arc-seconds: 3600 * (degrees + minutes / 60 + seconds / 3600)
Decimal(degrees, minutes, seconds) == 3600 * degrees + 60 * minutes + seconds

Returned(value) == [returned |-> value]
IsReturned(r) == "returned" \in DOMAIN r

\* lines 31-46
dms_to_decimal(text) ==
    LET match == Match(text)
    IN  IF match.matched
        THEN LET degrees == int(match.groups[1])
                 minutes == int(match.groups[2])
                 seconds == int(match.groups[3])
                 direction == match.groups[4]
                 decimal == Decimal(degrees, minutes, seconds)
             IN  Returned(IF Negated(direction) THEN -decimal ELSE decimal)
        ELSE Raise("ValueError", 46)

\* a token degrees, minutes (written with `pad` leading zeros), seconds with
\* the given marks, then `direction` and `tail`
DmsToken(d, pad, m, s, minuteMark, secondMark, direction, tail) ==
    NatStr(d) \o <<"deg">> \o pad \o NatStr(m) \o <<minuteMark>> \o NatStr(s)
        \o <<secondMark>> \o direction \o tail

FieldSamples == (0 .. MaxField) \cup {26, 40, 46}
Pads == {<<>>, <<"0">>}
DirectionSamples == {<<"N">>, <<"S">>, <<"E">>, <<"W">>, <<"n">>, <<>>}
Tails == {<<>>, <<"x">>}
DmsSamples ==
    {DmsToken(d, pad, m, s, mm, sm, dir, tail) :
        d \in FieldSamples, pad \in Pads, m \in {0, 26}, s \in {MaxField, 46},
        mm \in {"lsq", "apos"}, sm \in {"ldq", "quot"},
        dir \in DirectionSamples, tail \in Tails}
    \cup {<<>>, <<"N">>, <<"deg">>, <<"4", "0">>, <<"x", "4", "deg", "2", "lsq", "3", "ldq", "N">>,
          <<"4", "deg", "lsq", "3", "ldq", "N">>}

\* lines 31-46, applied to dms_str
Convert ==
    /\ pc = "dms_to_decimal"
    /\ dms_result' = dms_to_decimal(dms_str)
    /\ pc' = IF IsReturned(dms_result') THEN "returned" ELSE "raised"
    /\ error' = IF IsReturned(dms_result') THEN error ELSE dms_result'
    /\ UNCHANGED <<dms_str, coordinates, routeVars, readVars, fileVars>>

InitDms ==
    /\ pc = "dms_to_decimal"
    /\ error = NoError
    /\ dms_str \in DmsSamples
    /\ dms_result = NoError
    /\ coordinates = <<>>
    /\ start = 0
    /\ remaining_coords = {}
    /\ current_coord = None
    /\ route = <<>>
    /\ queries = <<>>
    /\ answered = {}
    /\ num_queries = 0
    /\ lines = <<>>
    /\ line_number = 0
    /\ reported = <<>>
    /\ efficient_route = <<>>
    /\ reread = <<>>

NextDms == Convert

SpecDms == InitDms /\ [][NextDms]_vars

Sign(direction) == IF direction \in {<<"S">>, <<"W">>} THEN -1 ELSE 1
Converted == pc # "dms_to_decimal"

\* C7 as stated: every token degrees, deg, minutes, apostrophe, seconds,
\* double quote, direction in NSEW is accepted and converts to
\* (3600*degrees + 60*minutes + seconds)/3600, negated for S and W.
C7_AsciiQuotesAccepted ==
    \A d \in FieldSamples, pad \in Pads, m \in {0, 26}, s \in {MaxField, 46} :
    \A dir \in {<<"N">>, <<"S">>, <<"E">>, <<"W">>} :
        (Converted /\ dms_str = DmsToken(d, pad, m, s, "apos", "quot", dir, <<>>)) =>
            dms_result = Returned(Sign(dir) * (3600 * d + 60 * m + s))

\* C7 as amended: a token that begins with degrees, U+00B0, minutes, U+2018,
\* seconds, U+201C and a direction in NSEW (anything may follow) converts to
\* (3600*degrees + 60*minutes + seconds)/3600, negated exactly for S and W;
\* every other token, the ASCII-quoted form included, raises ValueError.
C7_TypographicQuotesAccepted ==
    Converted =>
        /\ \A d \in FieldSamples, pad \in Pads, m \in {0, 26}, s \in {MaxField, 46} :
           \A mm \in {"lsq", "apos"}, sm \in {"ldq", "quot"} :
           \A dir \in DirectionSamples, tail \in Tails :
              dms_str = DmsToken(d, pad, m, s, mm, sm, dir, tail) =>
                 IF mm = "lsq" /\ sm = "ldq" /\ dir \in {<<"N">>, <<"S">>, <<"E">>, <<"W">>}
                 THEN /\ dms_result = Returned(Sign(dir) * (3600 * d + 60 * m + s))
                      /\ pc = "returned"
                 ELSE dms_result = Raise("ValueError", 46) /\ pc = "raised"
        /\ dms_str \in {<<>>, <<"N">>, <<"deg">>, <<"4", "0">>,
                        <<"x", "4", "deg", "2", "lsq", "3", "ldq", "N">>,
                        <<"4", "deg", "lsq", "3", "ldq", "N">>}
              => dms_result = Raise("ValueError", 46)

\* 40 deg 26 min 46 sec West, with trailing text: -(40 + 26/60 + 46/3600)
C7_Witness ==
    /\ pc = "returned"
    /\ dms_str = <<"4", "0", "deg", "2", "6", "lsq", "4", "6", "ldq", "W", "x">>
    /\ dms_result = Returned(-145606)

-----------------------------------------------------------------------------
(* read_coordinates_from_file *)

\* line 92
DescriptionOf(data) ==
    IF Len(data) > 2 THEN Description(SubSeq(data, 3, Len(data))) ELSE NoneDescription

\* lines 90-98: the body of the loop for one line; what it appends, prints or raises
ParseDmsLine(data) ==
    IF Len(data) < 2
    THEN [raised |-> Raise("IndexError", 91)]
    ELSE LET lat_decimal == dms_to_decimal(data[1])
             lon_decimal == dms_to_decimal(data[2])
         IN  IF ~IsReturned(lat_decimal) THEN [printed |-> lat_decimal]
             ELSE IF ~IsReturned(lon_decimal) THEN [printed |-> lon_decimal]
             ELSE [appended |-> <<lat_decimal.returned, lon_decimal.returned,
                                  DescriptionOf(data)>>]

\* lines 88-98: one pass of the loop over the lines of the file
ReadLine ==
    /\ pc = "read_coordinates_from_file"
    /\ line_number < Len(lines)
    /\ line_number' = line_number + 1
    /\ LET outcome == ParseDmsLine(lines[line_number + 1])
       IN  /\ coordinates' = IF "appended" \in DOMAIN outcome
                             THEN Append(coordinates, outcome.appended) ELSE coordinates
           /\ reported' = IF "printed" \in DOMAIN outcome
                          THEN Append(reported, line_number + 1) ELSE reported
           /\ pc' = IF "raised" \in DOMAIN outcome THEN "raised" ELSE pc
           /\ error' = IF "raised" \in DOMAIN outcome THEN outcome.raised ELSE error
    /\ UNCHANGED <<lines, routeVars, dmsVars, fileVars>>

\* line 99
ReadReturn ==
    /\ pc = "read_coordinates_from_file"
    /\ line_number = Len(lines)
    /\ pc' = "returned"
    /\ UNCHANGED <<error, coordinates, routeVars, readVars, dmsVars, fileVars>>

LatToken == <<"1", "deg", "2", "lsq", "3", "ldq", "N">>
LonToken == <<"4", "deg", "5", "lsq", "6", "ldq", "W">>
AsciiToken == <<"1", "deg", "2", "apos", "3", "quot", "N">>
DmsLineSamples ==
    { <<LatToken, LonToken>>,
      <<LonToken, LatToken, <<"a">>>>,
      <<LatToken, LonToken, <<"a">>, <<"b">>>>,
      <<AsciiToken, LonToken>>,
      <<LatToken, <<"x">>, <<"a">>>>,
      <<LatToken>>,
      <<>> }

RECURSIVE Lists(_, _)
\* the lists of at most n elements of S
Lists(S, n) ==
    IF n = 0 THEN {<<>>}
    ELSE Lists(S, n - 1) \cup {Append(l, x) : l \in {k \in Lists(S, n - 1) : Len(k) = n - 1}, x \in S}

InitRead ==
    /\ pc = "read_coordinates_from_file"
    /\ error = NoError
    /\ lines \in Lists(DmsLineSamples, MaxLines)
    /\ line_number = 0
    /\ reported = <<>>
    /\ coordinates = <<>>
    /\ start = 0
    /\ remaining_coords = {}
    /\ current_coord = None
    /\ route = <<>>
    /\ queries = <<>>
    /\ answered = {}
    /\ num_queries = 0
    /\ dms_str = <<>>
    /\ dms_result = NoError
    /\ efficient_route = <<>>
    /\ reread = <<>>

NextRead == ReadLine \/ ReadReturn

SpecRead == InitRead /\ [][NextRead]_vars

\* a line with two coordinates that dms_to_decimal converts
WellFormed(data) ==
    Len(data) >= 2 /\ IsReturned(dms_to_decimal(data[1])) /\ IsReturned(dms_to_decimal(data[2]))
CheckpointOf(data) ==
    <<dms_to_decimal(data[1]).returned, dms_to_decimal(data[2]).returned, DescriptionOf(data)>>
RECURSIVE Ascending(_)
\* the numbers of S in increasing order
Ascending(S) ==
    IF S = {} THEN <<>>
    ELSE LET least == CHOOSE x \in S : \A y \in S : x <= y
         IN  <<least>> \o Ascending(S \ {least})
WellFormedLines(n) == Ascending({k \in 1 .. n : WellFormed(lines[k])})
MalformedLines(n) == Ascending({k \in 1 .. n : ~WellFormed(lines[k])})
ExpectedCoordinates(n) ==
    [k \in 1 .. Len(WellFormedLines(n)) |-> CheckpointOf(lines[WellFormedLines(n)[k]])]

\* C5: whatever the lines are, no exception leaves read_coordinates_from_file;
\* after n lines the output is the checkpoints of the well-formed lines among
\* them, in file order, and an error was reported for each of the others.
C5_EveryLineIndependent ==
    /\ pc # "raised"
    /\ coordinates = ExpectedCoordinates(line_number)
    /\ reported = MalformedLines(line_number)

\* the part of C5 the code keeps: as long as every line read so far has at
\* least two tokens, nothing is raised, and the output and the reports are
\* as C5 says
ReadSkipsMalformedDms ==
    (\A k \in 1 .. line_number : Len(lines[k]) >= 2) =>
        /\ pc # "raised"
        /\ coordinates = ExpectedCoordinates(line_number)
        /\ reported = MalformedLines(line_number)

\* a line with fewer than two tokens ends the whole read with IndexError
ShortLineRaisesIndexError ==
    (line_number >= 1 /\ Len(lines[line_number]) < 2) =>
        pc = "raised" /\ error = Raise("IndexError", 91)

-----------------------------------------------------------------------------
(* save_coordinates_to_file and the parsing loop of create_map_from_file *)

\* str(x) of a number: a sign and its decimal digits
FloatStr(x) == IF x < 0 THEN <<"-">> \o NatStr(-x) ELSE NatStr(x)

IsNumber(text) ==
    LET body == IF text # <<>> /\ text[1] = "-" THEN Tail(text) ELSE text
    IN  body # <<>> /\ DigitsEnd(body, 1) = Len(body) + 1

\* float(text): the number written, or ValueError
float(text) ==
    IF IsNumber(text)
    THEN Returned(IF text[1] = "-" THEN -int(Tail(text)) ELSE int(text))
    ELSE Raise("ValueError", 147)

NoneWord == <<"N", "o", "n", "e">>
\* the words of str(description) inside the f-string of line 107
StrWords(description) ==
    IF description = NoneDescription THEN <<NoneWord>> ELSE description.words

\* line 107: the tokens of f"{lat} {lon} {description}\n"
FormatLine(checkpoint) ==
    <<FloatStr(checkpoint[1]), FloatStr(checkpoint[2])>> \o StrWords(checkpoint[3])

\* lines 104-107
Save ==
    /\ pc = "save_coordinates_to_file"
    /\ lines' = [k \in 1 .. Len(efficient_route) |->
                    FormatLine(At(coordinates, efficient_route[k]))]
    /\ pc' = "create_map_from_file"
    /\ UNCHANGED <<error, coordinates, line_number, reported, routeVars, dmsVars, fileVars>>

\* lines 146-152: the body of the loop for one line
ParseDecimalLine(data) ==
    IF Len(data) < 2
    THEN [printed |-> Raise("ValueError", 147)]
    ELSE LET lat == float(data[1])
             lon == float(data[2])
         IN  IF ~IsReturned(lat) THEN [printed |-> lat]
             ELSE IF ~IsReturned(lon) THEN [printed |-> lon]
             ELSE [appended |-> <<lat.returned, lon.returned, DescriptionOf(data)>>]

\* lines 144-152: one pass of the loop over the lines of the file
ParseLine ==
    /\ pc = "create_map_from_file"
    /\ line_number < Len(lines)
    /\ line_number' = line_number + 1
    /\ LET outcome == ParseDecimalLine(lines[line_number + 1])
       IN  /\ reread' = IF "appended" \in DOMAIN outcome
                        THEN Append(reread, outcome.appended) ELSE reread
           /\ reported' = IF "printed" \in DOMAIN outcome
                          THEN Append(reported, line_number + 1) ELSE reported
    /\ UNCHANGED <<pc, error, coordinates, lines, routeVars, dmsVars, efficient_route>>

\* lines 154-155: map_center divides by len(coordinates)
MapCenter ==
    /\ pc = "create_map_from_file"
    /\ line_number = Len(lines)
    /\ IF Len(reread) = 0
       THEN pc' = "raised" /\ error' = Raise("ZeroDivisionError", 154)
       ELSE pc' = "mapped" /\ error' = error
    /\ UNCHANGED <<coordinates, routeVars, readVars, dmsVars, fileVars>>

\* descriptions as read_coordinates_from_file produces them: None, or words
DescriptionSamples ==
    {NoneDescription, Description(<<<<"a">>, <<"b">>>>), Description(<<NoneWord>>)}
CheckpointSamples ==
    {<<lat, lon, d>> : lat \in {-12, 7}, lon \in {-MaxField, 105}, d \in DescriptionSamples}

InitFile ==
    /\ pc = "save_coordinates_to_file"
    /\ error = NoError
    /\ coordinates \in Lists(CheckpointSamples, MaxLines)
    /\ efficient_route \in Orders(Indices(coordinates))
    /\ lines = <<>>
    /\ line_number = 0
    /\ reported = <<>>
    /\ reread = <<>>
    /\ start = 0
    /\ remaining_coords = {}
    /\ current_coord = None
    /\ route = <<>>
    /\ queries = <<>>
    /\ answered = {}
    /\ num_queries = 0
    /\ dms_str = <<>>
    /\ dms_result = NoError

NextFile == Save \/ ParseLine \/ MapCenter

SpecFile == InitFile /\ [][NextFile]_vars

Reparsed == pc \in {"mapped", "raised"}
Written == [k \in 1 .. Len(efficient_route) |-> At(coordinates, efficient_route[k])]

\* C6: the list parsed back from the file written for a route is the list of
\* the route's checkpoints: the same latitude, longitude and description at
\* every route position, a missing description being read back as missing.
C6_RoundTrip ==
    Reparsed => reread = Written

\* the part of C6 the code keeps: the positions, latitudes and longitudes
\* come back, and so does every description that is not None
RoundTripButNone ==
    Reparsed =>
        /\ Len(reread) = Len(Written)
        /\ \A k \in 1 .. Len(Written) :
              /\ reread[k][1] = Written[k][1]
              /\ reread[k][2] = Written[k][2]
              /\ reread[k][3] = IF Written[k][3] = NoneDescription
                                THEN Description(<<NoneWord>>) ELSE Written[k][3]

\* an empty file makes create_map_from_file divide by zero
EmptyFileDividesByZero ==
    (Reparsed /\ Len(coordinates) = 0) =>
        pc = "raised" /\ error = Raise("ZeroDivisionError", 154)

====
